---- MODULE Spec2Model ----
(***************************************************************************)
(* A model of the DC traffic pipeline: the three entry functions           *)
(*   analysis             analyze_dc_traffic_data  (src/analysis.py)       *)
(*   html_generator       generate_traffic_map     (src/html_generator.py) *)
(*   html_generator_copy  generate_traffic_map     (src/analysis.py, the   *)
(*                        "html_generator copy.py" part)                   *)
(* each with its __main__ driver.  One behaviour is one run of one driver  *)
(* on one input file.                                                      *)
(*                                                                         *)
(* The raw text of a file is a sequence of JSON tokens; a feature object   *)
(* is one token.  Angles are in units of 90 degrees, where the haversine   *)
(* formula is exact: sin^2 and cos take the values 0, 1/2, 1 and 0, 1, -1. *)
(* A length is in units of a quarter great circle (R * pi / 2).            *)
(***************************************************************************)
EXTENDS Integers, Sequences, FiniteSets, TLC

VARIABLES variant, file, pc, data, parses, repairs, features, idx,
          segments, stats, aadt_values, colormap, routes, gi, fi, layers,
          fg, printed, found, map, ret, exc, driver

vars == <<variant, file, pc, data, parses, repairs, features, idx,
          segments, stats, aadt_values, colormap, routes, gi, fi, layers,
          fg, printed, found, map, ret, exc, driver>>

----------------------------------------------------------------------------
(* Bounds of the input space. *)

\* The most features a generated document holds.
MaxFeatures == 3

\* The most coordinates a generated geometry holds.
MaxCoords == 2

----------------------------------------------------------------------------
(* Python values. *)

\* An optional value: <<>> is None (a missing key or a JSON null, which
\* dict.get(key) does not tell apart), <<v>> is the value v.
None == <<>>

Some(v) == <<v>>

\* The float NaN, which json.load accepts as the literal NaN.
NaN == 999

\* Python truthiness of an optional number: None and 0 are falsy.
Truthy(o) == o # None /\ o[1] # 0

\* Python truthiness of an optional string: None and "" are falsy.
TruthyStr(o) == o # None /\ o[1] # ""

----------------------------------------------------------------------------
(* JSON values and tokens. *)

JNull == [t |-> "null"]

JList(items) == [t |-> "list", items |-> items]

JDict(members) == [t |-> "dict", members |-> members]

JFeature(f) == [t |-> "feat", f |-> f]

\* The properties of a feature: k is "dict", "null" (JSON null) or "missing".
Props(k, route_id, aadt, object_id) ==
    [k |-> k, ROUTEID |-> route_id, AADT |-> aadt, OBJECTID |-> object_id]

\* A coordinate: a list of numbers (k = "list"), a bare number (k = "num",
\* v = <<n>>) or a string (k = "str").
Coord(k, v) == [k |-> k, v |-> v]

\* The coordinates member: k is "list", "missing", "null" or "num" (a number
\* where the list should be).
Coords(k, items) == [k |-> k, items |-> items]

\* The geometry of a feature: k is "dict", "null" or "missing".
Geom(k, type, coordinates) == [k |-> k, type |-> type, coordinates |-> coordinates]

Feature(properties, geometry) == [properties |-> properties, geometry |-> geometry]

NoFeature == Feature(Props("missing", None, None, 0),
                     Geom("missing", "", Coords("missing", <<>>)))

\* A token of the raw text: "{", "}", "[", "]", ",", "F" (the key "features"
\* with its colon), "K" (any other key with its colon), "n" (null), or "feat"
\* (one whole feature object, which ends with a closing brace).
Tok(k) == [k |-> k, f |-> NoFeature]

FeatTok(f) == [k |-> "feat", f |-> f]

ParseFail == [ok |-> FALSE, v |-> JNull, i |-> 0]

RECURSIVE ParseValue(_, _), ParseElems(_, _, _, _), ParseMembers(_, _, _, _)

\* json's array parser: "[" was read; i is the next token.
ParseElems(toks, i, acc, first) ==
    IF i > Len(toks) THEN ParseFail
    ELSE IF first /\ toks[i].k = "]" THEN [ok |-> TRUE, v |-> JList(acc), i |-> i + 1]
    ELSE LET r == ParseValue(toks, i) IN
         IF ~r.ok \/ r.i > Len(toks) THEN ParseFail
         ELSE IF toks[r.i].k = "]"
              THEN [ok |-> TRUE, v |-> JList(Append(acc, r.v)), i |-> r.i + 1]
         ELSE IF toks[r.i].k = ","
              THEN ParseElems(toks, r.i + 1, Append(acc, r.v), FALSE)
         ELSE ParseFail

\* json's object parser: "{" was read; i is the next token.
ParseMembers(toks, i, acc, first) ==
    IF i > Len(toks) THEN ParseFail
    ELSE IF first /\ toks[i].k = "}" THEN [ok |-> TRUE, v |-> JDict(acc), i |-> i + 1]
    ELSE IF toks[i].k \notin {"F", "K"} THEN ParseFail
    ELSE LET r == ParseValue(toks, i + 1)
             m == [key |-> toks[i].k, val |-> r.v] IN
         IF ~r.ok \/ r.i > Len(toks) THEN ParseFail
         ELSE IF toks[r.i].k = "}"
              THEN [ok |-> TRUE, v |-> JDict(Append(acc, m)), i |-> r.i + 1]
         ELSE IF toks[r.i].k = ","
              THEN ParseMembers(toks, r.i + 1, Append(acc, m), FALSE)
         ELSE ParseFail

ParseValue(toks, i) ==
    IF i > Len(toks) THEN ParseFail
    ELSE IF toks[i].k = "n" THEN [ok |-> TRUE, v |-> JNull, i |-> i + 1]
    ELSE IF toks[i].k = "feat" THEN [ok |-> TRUE, v |-> JFeature(toks[i].f), i |-> i + 1]
    ELSE IF toks[i].k = "[" THEN ParseElems(toks, i + 1, <<>>, TRUE)
    ELSE IF toks[i].k = "{" THEN ParseMembers(toks, i + 1, <<>>, TRUE)
    ELSE ParseFail

\* json.load / json.loads: one value, then the end of the text; anything else
\* raises JSONDecodeError (ok = FALSE).
JsonLoads(toks) ==
    LET r == ParseValue(toks, 1) IN
    IF r.ok /\ r.i = Len(toks) + 1 THEN r ELSE ParseFail

\* content.strip().endswith('}')
EndsWithBrace(toks) == Len(toks) > 0 /\ toks[Len(toks)].k \in {"}", "feat"}

\* dict.get(key) on a parsed object: the last member of that key wins;
\* has = FALSE when the key is absent.
RECURSIVE DictGet(_, _)
DictGet(members, key) ==
    IF members = <<>> THEN [has |-> FALSE, v |-> JNull]
    ELSE LET last == members[Len(members)] IN
         IF last.key = key THEN [has |-> TRUE, v |-> last.val]
         ELSE DictGet(SubSeq(members, 1, Len(members) - 1), key)

----------------------------------------------------------------------------
(* The length computation of analyze_dc_traffic_data. *)

\* 2 * sin^2(d/2) for an angle of d quarter turns.
Sin2Half(d) == CASE d % 4 = 0 -> 0 [] d % 4 = 2 -> 2 [] OTHER -> 1

\* cos of an angle of l quarter turns.
Cos(l) == CASE l % 4 = 0 -> 1 [] l % 4 = 2 -> -1 [] OTHER -> 0

\* A faulty variant of LonLat: the fallback takes the only element of a
\* one-element list as the longitude.
LonLatFirstElement(coord) ==
    IF coord.k = "list" /\ Len(coord.v) >= 2
    THEN [num |-> TRUE, lon |-> coord.v[1], lat |-> coord.v[2]]
    ELSE IF coord.k = "num" \/ (coord.k = "list" /\ Len(coord.v) = 1)
    THEN [num |-> TRUE, lon |-> coord.v[1], lat |-> 0]
    ELSE [num |-> FALSE, lon |-> 0, lat |-> 0]

\* What haversine takes for the longitude and latitude of a coordinate: the
\* first two elements of a list of at least 2, or else the coordinate itself
\* with latitude 0.  num = FALSE when the longitude is not a number, so that
\* the subtraction raises TypeError.
LonLat(coord) ==
    IF coord.k = "list" /\ Len(coord.v) >= 2
    THEN [num |-> TRUE, lon |-> coord.v[1], lat |-> coord.v[2]]
    ELSE IF coord.k = "num"
    THEN [num |-> TRUE, lon |-> coord.v[1], lat |-> 0]
    ELSE [num |-> FALSE, lon |-> 0, lat |-> 0]

\* haversine(coord1, coord2): the distance, or raise = TRUE.  A NaN operand
\* makes every float operation yield NaN without an exception.
haversine(coord1, coord2) ==
    LET p == LonLat(coord1)
        q == LonLat(coord2)
        a2 == Sin2Half(q.lat - p.lat) + Cos(p.lat) * Cos(q.lat) * Sin2Half(q.lon - p.lon)
    IN  IF ~p.num \/ ~q.num THEN [raise |-> TRUE, d |-> 0]
        ELSE IF NaN \in {p.lon, p.lat, q.lon, q.lat} THEN [raise |-> FALSE, d |-> NaN]
        ELSE IF a2 < 0 \/ a2 > 2 THEN [raise |-> TRUE, d |-> 0]
        ELSE [raise |-> FALSE, d |-> a2]

\* Float addition.
FAdd(x, y) == IF x = NaN \/ y = NaN THEN NaN ELSE x + y

\* The loop "for i in range(len(coords)-1): length_km += haversine(...)" from
\* pair i on, with acc the sum so far: the sum, or raise = TRUE with the
\* partial sum at the exception.
RECURSIVE SumPairs(_, _, _)
SumPairs(items, i, acc) ==
    IF i >= Len(items) THEN [raise |-> FALSE, km |-> acc]
    ELSE LET h == haversine(items[i], items[i + 1]) IN
         IF h.raise THEN [raise |-> TRUE, km |-> acc]
         ELSE SumPairs(items, i + 1, FAdd(acc, h.d))

\* The value "except Exception" leaves in length_km.
OnLengthError(partial) == 0

\* length_km of a geometry whose coordinates are a list or falsy: 0 unless
\* there are 2 coordinates or more; failed = TRUE when the except branch ran.
LengthKm(coordinates) ==
    IF coordinates.k = "list" /\ Len(coordinates.items) > 1
    THEN LET r == SumPairs(coordinates.items, 1, 0) IN
         IF r.raise THEN [km |-> OnLengthError(r.km), failed |-> TRUE]
         ELSE [km |-> r.km, failed |-> FALSE]
    ELSE [km |-> 0, failed |-> FALSE]

\* bool(coords)
CoordsTruthy(coordinates) ==
    \/ coordinates.k = "num"
    \/ coordinates.k = "list" /\ coordinates.items # <<>>

----------------------------------------------------------------------------
(* The input space. *)

Variants == {"analysis", "html_generator", "html_generator_copy"}

SeqsUpTo(S, n) == UNION {[1..k -> S] : k \in 0..n}

C00 == Coord("list", <<0, 0>>)

C10 == Coord("list", <<1, 0>>)

\* [lon, lat, elevation]
C3d == Coord("list", <<0, 1, 5>>)

CNum == Coord("num", <<1>>)

CStr == Coord("str", <<>>)

CNaN == Coord("list", <<NaN, 0>>)

\* [1]
COne == Coord("list", <<1>>)

\* []
CEmpty == Coord("list", <<>>)

\* null
CNull == Coord("null", <<>>)

CoordDom == {C00, C10, C3d, CNum, CStr, CNaN, COne, CEmpty, CNull}

LineString(items) == Geom("dict", "LineString", Coords("list", items))

DefaultGeom == LineString(<<C00, C10>>)

GeomDom ==
    {LineString(items) : items \in SeqsUpTo(CoordDom, MaxCoords)}
    \cup {Geom("null", "", Coords("missing", <<>>)),
          Geom("missing", "", Coords("missing", <<>>)),
          Geom("dict", "LineString", Coords("missing", <<>>)),
          Geom("dict", "LineString", Coords("null", <<>>)),
          Geom("dict", "LineString", Coords("num", <<>>)),
          Geom("dict", "Point", Coords("list", <<CNum, CNum>>))}

DefaultProps == Props("dict", Some("R1"), Some(5000), 0)

DefaultFeature == Feature(DefaultProps, DefaultGeom)

\* Features that differ from the default one in their shape.
ShapeDom ==
    {Feature(DefaultProps, g) : g \in GeomDom}
    \cup {Feature(Props("null", None, None, 0), DefaultGeom),
          Feature(Props("missing", None, None, 0), DefaultGeom)}

RouteDom == {None, Some(""), Some("R1"), Some("R2")}

\* Features that differ in their route and in whether they carry a volume.
RouteFeatureDom ==
    {Feature(Props("dict", r, a, 0), DefaultGeom) : r \in RouteDom, a \in {None, Some(1000)}}

AadtDom == {None, Some(0), Some(1000), Some(1001), Some(5000), Some(5001),
            Some(10000), Some(10001)}

\* Features of one route that differ in their volume.
AadtFeatureDom == {Feature(Props("dict", Some("R1"), a, 0), DefaultGeom) : a \in AadtDom}

\* OBJECTID = the position in the document, for the features that have properties.
WithIds(fs) ==
    [i \in 1..Len(fs) |->
        IF fs[i].properties.k = "dict"
        THEN [fs[i] EXCEPT !.properties.OBJECTID = i]
        ELSE fs[i]]

FeatureLists ==
    {[i \in 1..n |-> IF i = p THEN f ELSE DefaultFeature] :
        n \in 1..MaxFeatures, p \in 1..MaxFeatures, f \in ShapeDom}
    \cup SeqsUpTo(RouteFeatureDom, MaxFeatures)
    \cup SeqsUpTo(AadtFeatureDom, MaxFeatures)

\* The tokens of a list of features, separated by commas.
RECURSIVE FeatureToks(_)
FeatureToks(fs) ==
    IF fs = <<>> THEN <<>>
    ELSE IF Len(fs) = 1 THEN <<FeatTok(fs[1])>>
    ELSE <<FeatTok(fs[1]), Tok(",")>> \o FeatureToks(Tail(fs))

\* {"features": [ ... ]}
GeoJsonText(fs) ==
    <<Tok("{"), Tok("F"), Tok("[")>> \o FeatureToks(WithIds(fs)) \o <<Tok("]"), Tok("}")>>

\* {"features": [ ... ], "crs": {"properties": [null]}}
GeoJsonTextCrs(fs) ==
    <<Tok("{"), Tok("F"), Tok("[")>> \o FeatureToks(WithIds(fs))
    \o <<Tok("]"), Tok(","), Tok("K"), Tok("{"), Tok("K"), Tok("["), Tok("n"),
         Tok("]"), Tok("}"), Tok("}")>>

\* Documents whose truncations are loaded: with features, with an empty, null
\* or missing features member, and one that is no object.
LoaderDocs ==
    {GeoJsonText(<<DefaultFeature>>),
     GeoJsonText(<<DefaultFeature, DefaultFeature>>),
     GeoJsonTextCrs(<<DefaultFeature>>),
     GeoJsonText(<<>>),
     <<Tok("{"), Tok("F"), Tok("n"), Tok("}")>>,
     <<Tok("{"), Tok("K"), Tok("n"), Tok("}")>>,
     <<Tok("{"), Tok("K"), Tok("{"), Tok("F"), Tok("["), Tok("]"), Tok("}"), Tok("}")>>,
     <<Tok("["), FeatTok(DefaultFeature), Tok("]")>>}

Texts ==
    UNION {{SubSeq(t, 1, k) : k \in 0..Len(t)} : t \in LoaderDocs}
    \cup {GeoJsonText(fs) : fs \in FeatureLists}

Files ==
    {[exists |-> TRUE, text |-> t] : t \in Texts}
    \cup {[exists |-> FALSE, text |-> <<>>]}

NoStats == [computed |-> FALSE]

NoColormap == [defined |-> FALSE, vmin |-> None, vmax |-> None]

Init ==
    /\ variant \in Variants
    /\ file \in Files
    /\ pc = "load"
    /\ data = JNull
    /\ parses = 0
    /\ repairs = <<>>
    /\ features = <<>>
    /\ idx = 0
    /\ segments = <<>>
    /\ stats = NoStats
    /\ aadt_values = <<>>
    /\ colormap = NoColormap
    /\ routes = <<>>
    /\ gi = 0
    /\ fi = 0
    /\ layers = <<>>
    /\ fg = <<>>
    /\ printed = <<>>
    /\ found = 0
    /\ map = [created |-> FALSE, saved |-> FALSE]
    /\ ret = "unset"
    /\ exc = "none"
    /\ driver = [raised |-> "none", crashed |-> FALSE]

----------------------------------------------------------------------------
(* The loader. *)

Say(msg) == printed' = Append(printed, msg)

\* An exception leaves the entry function.
Escape(e) == exc' = e /\ pc' = "driver"

\* return None
ReturnNone == ret' = "None" /\ pc' = "driver"

\* A faulty variant of RepairSuffix: analysis appends "]}}" whatever the text
\* ends with.
RepairSuffixAlways(v, content) ==
    IF v = "analysis" THEN <<Tok("]"), Tok("}"), Tok("}")>> ELSE <<Tok("]"), Tok("}")>>

\* The text the repair parses: analysis appends "]}}" unless the text ends
\* with "}", the generate_traffic_map copies always append "]}".
RepairSuffix(v, content) ==
    IF v = "analysis"
    THEN IF ~EndsWithBrace(content) THEN <<Tok("]"), Tok("}"), Tok("}")>> ELSE <<>>
    ELSE <<Tok("]"), Tok("}")>>

\* open + json.load.  A missing file raises FileNotFoundError, which only the
\* generate_traffic_map copies catch ("except Exception").
Load ==
    /\ pc = "load"
    /\ IF ~file.exists
       THEN /\ IF variant = "analysis"
               THEN /\ Escape("FileNotFoundError")
                    /\ Say("loading")
                    /\ UNCHANGED ret
               ELSE /\ ReturnNone
                    /\ printed' = printed \o <<"loading", "error_loading">>
                    /\ UNCHANGED exc
            /\ UNCHANGED <<data, parses>>
       ELSE LET r == JsonLoads(file.text) IN
            /\ parses' = parses + 1
            /\ IF r.ok
               THEN /\ data' = r.v
                    /\ pc' = "check"
                    /\ printed' = printed \o <<"loading", "loaded">>
               ELSE /\ pc' = "repair"
                    /\ printed' = printed \o <<"loading", "json_error">>
                    /\ UNCHANGED data
            /\ UNCHANGED <<ret, exc>>
    /\ UNCHANGED <<variant, file, repairs, features, idx, segments, stats,
                   aadt_values, colormap, routes, gi, fi, layers, fg, found,
                   map, driver>>

\* The except branch of the first parse: read the text again, patch it, and
\* parse once more; a second failure returns None.
Repair ==
    /\ pc = "repair"
    /\ LET suffix == RepairSuffix(variant, file.text)
           r == JsonLoads(file.text \o suffix) IN
       /\ repairs' = Append(repairs, [k \in 1..Len(suffix) |-> suffix[k].k])
       /\ parses' = parses + 1
       /\ IF r.ok
          THEN /\ data' = r.v
               /\ pc' = "check"
               /\ Say("fixed")
               /\ UNCHANGED ret
          ELSE /\ ReturnNone
               /\ Say("unable_to_fix")
               /\ UNCHANGED data
    /\ UNCHANGED <<variant, file, features, idx, segments, stats, aadt_values,
                   colormap, routes, gi, fi, layers, fg, found, map, exc, driver>>

\* A faulty variant of FeaturesOf: the test is "'features' in data", so a
\* null or empty features member passes it.
FeaturesOfKeyTest(d) ==
    LET g == DictGet(d.members, "F") IN
    IF d.t = "feat" \/ ~g.has THEN [k |-> "falsy", items |-> <<>>]
    ELSE IF g.v.t = "list" /\ g.v.items # <<>> THEN [k |-> "list", items |-> g.v.items]
    ELSE [k |-> "dict", items |-> <<>>]

\* data.get('features', []) and its truth value: k is "list" (a non-empty
\* list), "falsy" (absent, null, empty) or "dict" (a non-empty object).
FeaturesOf(d) ==
    LET g == DictGet(d.members, "F") IN
    IF d.t = "feat" \/ ~g.has \/ g.v.t = "null" THEN [k |-> "falsy", items |-> <<>>]
    ELSE IF g.v.t = "list"
    THEN IF g.v.items = <<>> THEN [k |-> "falsy", items |-> <<>>]
         ELSE [k |-> "list", items |-> g.v.items]
    ELSE IF g.v.t = "dict" /\ g.v.members = <<>> THEN [k |-> "falsy", items |-> <<>>]
    ELSE [k |-> "dict", items |-> <<>>]

\* The exception of the block that prints the first feature's coordinate
\* structure in analyze_dc_traffic_data, or "none".
FirstFeatureCheck(item) ==
    IF item.t # "feat" THEN "AttributeError"
    ELSE IF item.f.geometry.k = "null" THEN "AttributeError"
    ELSE IF item.f.geometry.k = "dict" /\ item.f.geometry.coordinates.k = "num"
    THEN "TypeError"
    ELSE "none"

\* "features = data.get('features', [])" and "if not features".  A document
\* that is no object has no get (AttributeError).  Past the check, analysis
\* prints the first feature's coordinate structure and the
\* generate_traffic_map copies create the map.
CheckFeatures ==
    /\ pc = "check"
    /\ IF data.t \notin {"dict", "feat"}
       THEN /\ Escape("AttributeError")
            /\ UNCHANGED <<features, idx, printed, found, map, ret>>
       ELSE LET fs == FeaturesOf(IF data.t = "feat" THEN JDict(<<>>) ELSE data) IN
            IF fs.k = "falsy"
            THEN /\ ReturnNone
                 /\ Say("no_features")
                 /\ UNCHANGED <<features, idx, found, map, exc>>
            ELSE IF fs.k = "dict"
            THEN /\ Escape(IF variant = "analysis" THEN "KeyError" ELSE "AttributeError")
                 /\ Say("found")
                 /\ found' = 1
                 /\ map' = [map EXCEPT !.created = variant # "analysis"]
                 /\ UNCHANGED <<features, idx, ret>>
            ELSE /\ features' = fs.items
                 /\ found' = Len(fs.items)
                 /\ Say("found")
                 /\ idx' = 1
                 /\ IF variant = "analysis"
                    THEN /\ IF FirstFeatureCheck(fs.items[1]) # "none"
                            THEN Escape(FirstFeatureCheck(fs.items[1]))
                            ELSE pc' = "extract" /\ UNCHANGED exc
                         /\ UNCHANGED map
                    ELSE /\ pc' = "scan"
                         /\ map' = [map EXCEPT !.created = TRUE]
                         /\ UNCHANGED exc
                 /\ UNCHANGED ret
    /\ UNCHANGED <<variant, file, data, parses, repairs, segments, stats,
                   aadt_values, colormap, routes, gi, fi, layers, fg, driver>>

----------------------------------------------------------------------------
(* The segment extractor of analyze_dc_traffic_data. *)

\* props.get(key) with props = feature.get('properties', {})
PropGet(f, key) ==
    IF f.properties.k = "dict"
    THEN CASE key = "ROUTEID" -> f.properties.ROUTEID
           [] key = "AADT" -> f.properties.AADT
           [] key = "OBJECTID" -> Some(f.properties.OBJECTID)
    ELSE None

\* geom.get('coordinates', []) with geom = feature.get('geometry', {})
CoordsOf(f) ==
    IF f.geometry.k = "dict" THEN f.geometry.coordinates ELSE Coords("missing", <<>>)

\* The exception that ends the loop body for this feature, or "none".
ExtractError(item) ==
    IF item.t # "feat" THEN "AttributeError"
    ELSE IF item.f.geometry.k = "null" THEN "AttributeError"
    ELSE IF CoordsOf(item.f).k = "num" THEN "TypeError"
    ELSE IF item.f.properties.k = "null" THEN "AttributeError"
    ELSE "none"

\* The segment record of a feature that raises nothing.
Segment(f) ==
    LET coords == CoordsOf(f) IN
    [route_id |-> PropGet(f, "ROUTEID"),
     aadt |-> PropGet(f, "AADT"),
     object_id |-> PropGet(f, "OBJECTID"),
     length_km |-> LengthKm(coords).km,
     start_coord |-> IF CoordsTruthy(coords) THEN Some(coords.items[1]) ELSE None,
     end_coord |-> IF CoordsTruthy(coords) THEN Some(coords.items[Len(coords.items)]) ELSE None]

\* One iteration of "for feature in features": append the feature's segment,
\* or leave the function by the exception the body raises.
ExtractFeature ==
    /\ pc = "extract"
    /\ LET item == features[idx]
           e == ExtractError(item) IN
       IF e # "none"
       THEN /\ Escape(e)
            /\ UNCHANGED <<segments, idx, printed>>
       ELSE /\ segments' = Append(segments, Segment(item.f))
            /\ idx' = idx + 1
            /\ pc' = IF idx = Len(features) THEN "stats" ELSE "extract"
            /\ IF LengthKm(CoordsOf(item.f)).failed
               THEN Say("length_error")
               ELSE UNCHANGED printed
            /\ UNCHANGED exc
    /\ UNCHANGED <<variant, file, data, parses, repairs, features, stats,
                   aadt_values, colormap, routes, gi, fi, layers, fg, found,
                   map, ret, driver>>

----------------------------------------------------------------------------
(* The aggregator of analyze_dc_traffic_data (pandas). *)

\* Bin edges of traffic_ranges.
Bin1 == 1000

Bin2 == 5000

Bin3 == 10000

RECURSIVE SeqSum(_)
SeqSum(xs) == IF xs = <<>> THEN 0 ELSE xs[1] + SeqSum(Tail(xs))

SeqMin(xs) == CHOOSE m \in {xs[i] : i \in 1..Len(xs)} : \A i \in 1..Len(xs) : m <= xs[i]

SeqMax(xs) == CHOOSE m \in {xs[i] : i \in 1..Len(xs)} : \A i \in 1..Len(xs) : m >= xs[i]

\* The k-th smallest element of xs (k from 1).
Kth(xs, k) ==
    CHOOSE m \in {xs[i] : i \in 1..Len(xs)} :
        /\ Cardinality({i \in 1..Len(xs) : xs[i] < m}) < k
        /\ Cardinality({i \in 1..Len(xs) : xs[i] <= m}) >= k

\* A faulty variant of AadtColumn: a missing value counts as 0 (fillna(0)).
AadtColumnFillZero(segs) ==
    [i \in 1..Len(segs) |-> IF segs[i].aadt = None THEN 0 ELSE segs[i].aadt[1]]

\* The column df['aadt'] as pandas aggregates it: a None is a missing value
\* (NaN), which mean, median, min, max and count skip.
AadtColumn(segs) ==
    LET present == SelectSeq(segs, LAMBDA s : s.aadt # None) IN
    [i \in 1..Len(present) |-> present[i].aadt[1]]

\* A faulty variant of InBin: the lower edges are inclusive too.
InBinInclusive(k, a) ==
    CASE k = 1 -> a <= Bin1
      [] k = 2 -> a >= Bin1 /\ a <= Bin2
      [] k = 3 -> a >= Bin2 /\ a <= Bin3
      [] k = 4 -> a >= Bin3

\* The k-th condition of traffic_ranges on a volume.
InBin(k, a) ==
    CASE k = 1 -> a <= Bin1
      [] k = 2 -> a > Bin1 /\ a <= Bin2
      [] k = 3 -> a > Bin2 /\ a <= Bin3
      [] k = 4 -> a > Bin3

\* len(df[cond]) for the four conditions of traffic_ranges; a comparison with
\* a missing value is False.
TrafficRanges(segs) ==
    [k \in 1..4 |-> Len(SelectSeq(segs, LAMBDA s : s.aadt # None /\ InBin(k, s.aadt[1])))]

\* The column length_km summed as pandas sums it (NaN skipped).
LengthSum(segs) ==
    LET finite == SelectSeq(segs, LAMBDA s : s.length_km # NaN) IN
    SeqSum([i \in 1..Len(finite) |-> finite[i].length_km])

\* One row of df.groupby('route_id').agg({'aadt': ['mean', 'min', 'max',
\* 'count'], 'length_km': 'sum'}): 'count' is the number of non-missing aadt
\* values of the group; mean is sum_aadt / segment_count.
RouteRow(segs, r) ==
    LET group == SelectSeq(segs, LAMBDA s : s.route_id = Some(r))
        col == AadtColumn(group)
    IN  [route_id |-> r,
         sum_aadt |-> SeqSum(col),
         min_aadt |-> IF col = <<>> THEN None ELSE Some(SeqMin(col)),
         max_aadt |-> IF col = <<>> THEN None ELSE Some(SeqMax(col)),
         segment_count |-> Len(col),
         total_length_km |-> LengthSum(group)]

\* groupby drops the rows whose key is missing and keeps every other key.
RouteStats(segs) ==
    {RouteRow(segs, s[1]) :
        s \in {segs[i].route_id : i \in 1..Len(segs)} \ {None}}

\* The statistics block: the global statistics over the non-missing aadt
\* values (median2 is twice the median), the bins and the per-route table.
Statistics(segs) ==
    LET col == AadtColumn(segs)
        n == Len(col)
    IN  [computed |-> TRUE,
         total |-> Len(segs),
         count |-> n,
         sum |-> SeqSum(col),
         median2 |-> IF n = 0 THEN None
                     ELSE Some(Kth(col, (n + 1) \div 2) + Kth(col, (n + 2) \div 2)),
         min |-> IF n = 0 THEN None ELSE Some(SeqMin(col)),
         max |-> IF n = 0 THEN None ELSE Some(SeqMax(col)),
         traffic_ranges |-> TrafficRanges(segs),
         route_stats |-> RouteStats(segs)]

\* df = pd.DataFrame(segments) and the printed statistics.
Stats ==
    /\ pc = "stats"
    /\ stats' = Statistics(segments)
    /\ Say("stats")
    /\ pc' = "create_map"
    /\ UNCHANGED <<variant, file, data, parses, repairs, features, idx, segments,
                   aadt_values, colormap, routes, gi, fi, layers, fg, found,
                   map, ret, exc, driver>>

\* The centre of the map iterates over the coordinates of every LineString:
\* a null coordinates member is not iterable (TypeError).
CenterError(fs) ==
    \E i \in 1..Len(fs) :
        /\ fs[i].f.geometry.k = "dict"
        /\ fs[i].f.geometry.type = "LineString"
        /\ fs[i].f.geometry.coordinates.k = "null"

\* The map and its colour scale in analyze_dc_traffic_data: the scale is
\* always built, from df['aadt'].min() and .max().
CreateMap ==
    /\ pc = "create_map"
    /\ IF CenterError(features)
       THEN /\ Escape("TypeError")
            /\ UNCHANGED <<map, colormap, idx>>
       ELSE /\ map' = [map EXCEPT !.created = TRUE]
            /\ colormap' = [defined |-> TRUE, vmin |-> stats.min, vmax |-> stats.max]
            /\ pc' = "group"
            /\ idx' = 1
            /\ UNCHANGED exc
    /\ UNCHANGED <<variant, file, data, parses, repairs, features, segments,
                   stats, aadt_values, routes, gi, fi, layers, fg, printed,
                   found, ret, driver>>

----------------------------------------------------------------------------
(* The first pass of the generate_traffic_map copies. *)

\* The exception that ends the loop body for this feature, or "none".  The
\* copy in analysis.py takes len(coords[0]) without the isinstance test.
ScanError(v, item) ==
    IF item.t # "feat" THEN "AttributeError"
    ELSE IF item.f.properties.k = "null" THEN "AttributeError"
    ELSE IF item.f.geometry.k = "null" THEN "AttributeError"
    ELSE IF item.f.geometry.k = "dict" /\ item.f.geometry.type = "LineString"
    THEN LET coords == item.f.geometry.coordinates IN
         IF coords.k = "num" THEN "TypeError"
         ELSE IF /\ v = "html_generator_copy"
                 /\ CoordsTruthy(coords)
                 /\ coords.items[1].k \in {"num", "null"}
         THEN "TypeError"
         ELSE "none"
    ELSE "none"

\* A faulty variant of Collect: the list is replaced by the new value
\* instead of being appended to.
CollectLast(values, aadt) ==
    IF Truthy(aadt) THEN <<aadt[1]>> ELSE values

\* "if aadt: aadt_values.append(aadt)"
Collect(values, aadt) ==
    IF Truthy(aadt) THEN Append(values, aadt[1]) ELSE values

\* One iteration of the loop that collects aadt_values: "if aadt" keeps the
\* truthy volumes.  (unique_routes and sample_coords feed a printed count and
\* a recentring that needs more than 10 samples.)
ScanFeature ==
    /\ pc = "scan"
    /\ LET item == features[idx]
           e == ScanError(variant, item) IN
       IF e # "none"
       THEN /\ Escape(e)
            /\ UNCHANGED <<aadt_values, idx>>
       ELSE /\ aadt_values' = Collect(aadt_values, PropGet(item.f, "AADT"))
            /\ idx' = idx + 1
            /\ pc' = IF idx = Len(features) THEN "colormap" ELSE "scan"
            /\ UNCHANGED exc
    /\ UNCHANGED <<variant, file, data, parses, repairs, features, segments,
                   stats, colormap, routes, gi, fi, layers, fg, printed, found,
                   map, ret, driver>>

\* "if aadt_values:" the colour scale from min(aadt_values) to max(aadt_values).
Colormap ==
    /\ pc = "colormap"
    /\ colormap' = IF aadt_values # <<>>
                   THEN [defined |-> TRUE,
                         vmin |-> Some(SeqMin(aadt_values)),
                         vmax |-> Some(SeqMax(aadt_values))]
                   ELSE NoColormap
    /\ Say("aadt_range")
    /\ pc' = "group"
    /\ idx' = 1
    /\ UNCHANGED <<variant, file, data, parses, repairs, features, segments,
                   stats, aadt_values, routes, gi, fi, layers, fg, found, map,
                   ret, exc, driver>>

----------------------------------------------------------------------------
(* The renderer: grouping by route, drawing, saving. *)

\* The position of the group of route r in the dict, or 0.
GroupIndex(groups, r) ==
    IF \E k \in 1..Len(groups) : groups[k].route_id = r
    THEN CHOOSE k \in 1..Len(groups) : groups[k].route_id = r
    ELSE 0

\* A faulty variant of AddToGroup: a new key goes to the front of the dict.
AddToGroupFront(groups, r, f) ==
    LET k == GroupIndex(groups, r) IN
    IF k = 0
    THEN <<[route_id |-> r, features |-> <<f>>]>> \o groups
    ELSE [groups EXCEPT ![k].features = Append(@, f)]

\* routes[route_id].append(feature), with a new key added at the end of the
\* dict.
AddToGroup(groups, r, f) ==
    LET k == GroupIndex(groups, r) IN
    IF k = 0
    THEN Append(groups, [route_id |-> r, features |-> <<f>>])
    ELSE [groups EXCEPT ![k].features = Append(@, f)]

\* The test that keeps a feature in the grouping: both "if not route_id:
\* continue" and "if route_id:" test the truth value.
Grouped(route_id) == TruthyStr(route_id)

\* One iteration of the grouping loop.
GroupFeature ==
    /\ pc = "group"
    /\ LET f == features[idx].f
           route_id == PropGet(f, "ROUTEID")
           groups == IF Grouped(route_id) THEN AddToGroup(routes, route_id[1], f)
                     ELSE routes IN
       /\ routes' = groups
       /\ idx' = idx + 1
       /\ IF idx < Len(features)
          THEN pc' = "group" /\ UNCHANGED <<gi, fi>>
          ELSE /\ pc' = IF groups = <<>> THEN "save" ELSE "draw"
               /\ gi' = 1
               /\ fi' = 1
    /\ UNCHANGED <<variant, file, data, parses, repairs, features, segments,
                   stats, aadt_values, colormap, layers, fg, printed, found,
                   map, ret, exc, driver>>

\* Line-width thresholds.
Width1 == 1000

Width1Gen == 2000

Width2 == 5000

Width3 == 10000

\* The line width of a volume.
Weight(v, aadt) ==
    IF v = "analysis"
    THEN IF aadt <= Width1 THEN 2
         ELSE IF aadt <= Width2 THEN 4
         ELSE IF aadt <= Width3 THEN 6
         ELSE 8
    ELSE IF aadt > Width3 THEN 7
         ELSE IF aadt > Width2 THEN 5
         ELSE IF aadt > Width1Gen THEN 3
         ELSE 2

\* A finite [lon, lat] or [lon, lat, elevation].
Position(c) == c.k = "list" /\ Len(c.v) >= 2 /\ NaN \notin {c.v[1], c.v[2]}

\* A geometry that is valid GeoJSON.
WellFormed(g) ==
    /\ g.k = "dict"
    /\ g.coordinates.k = "list"
    /\ \/ /\ g.type = "LineString"
          /\ Len(g.coordinates.items) >= 2
          /\ \A i \in 1..Len(g.coordinates.items) : Position(g.coordinates.items[i])
       \/ /\ g.type = "Point"
          /\ Len(g.coordinates.items) >= 2
          /\ \A i \in 1..Len(g.coordinates.items) : g.coordinates.items[i].k = "num"

\* Whether folium.GeoJson(...).add_to(fg) raises: not for valid GeoJSON; for
\* anything else the library decides.
GeoJsonRaises(f) == IF WellFormed(f.geometry) THEN {FALSE} ELSE BOOLEAN

\* The exception of "[[lat, lon] for lon, lat in coords]", or "none": every
\* coordinate must unpack into exactly two values; the first that does not
\* raises TypeError when it is not iterable and ValueError otherwise.
UnpackError(items) ==
    LET Bad == {i \in 1..Len(items) : ~(items[i].k = "list" /\ Len(items[i].v) = 2)}
        first == CHOOSE i \in Bad : \A j \in Bad : i <= j
    IN  IF Bad = {} THEN "none"
        ELSE IF items[first].k \in {"num", "null"} THEN "TypeError"
        ELSE "ValueError"

\* Whether folium.PolyLine(locations) raises: the library decides for a NaN.
PolyLineRaises(items) ==
    IF \E i \in 1..Len(items) : NaN \in {items[i].v[1], items[i].v[2]}
    THEN BOOLEAN ELSE {FALSE}

\* The colour a drawn feature gets.
Colour(v) ==
    IF v = "analysis" \/ aadt_values # <<>> THEN "scale" ELSE "blue"

Drawn(f, aadt) ==
    [object_id |-> f.properties.OBJECTID, aadt |-> aadt,
     weight |-> Weight(variant, aadt), colour |-> Colour(variant)]

\* One iteration of "for feature in route_features" in analysis and in
\* html_generator: a falsy AADT skips the feature; folium.GeoJson is inside
\* try/except, which prints and goes on.
DrawGeoJson(f) ==
    LET aadt == PropGet(f, "AADT") IN
    /\ fi' = fi + 1
    /\ UNCHANGED <<pc, exc>>
    /\ IF ~Truthy(aadt)
       THEN UNCHANGED <<fg, printed>>
       ELSE \E raises \in GeoJsonRaises(f) :
               IF raises
               THEN Say("add_error") /\ UNCHANGED fg
               ELSE fg' = Append(fg, Drawn(f, aadt[1])) /\ UNCHANGED printed

\* The same iteration in the copy in analysis.py (html_generator copy.py):
\* only a LineString with coordinates is drawn, by folium.PolyLine, and no
\* try/except surrounds it.
DrawPolyLine(f) ==
    LET aadt == PropGet(f, "AADT")
        coords == CoordsOf(f) IN
    /\ UNCHANGED printed
    /\ IF \/ ~Truthy(aadt)
          \/ f.geometry.k # "dict"
          \/ f.geometry.type # "LineString"
          \/ ~CoordsTruthy(coords)
       THEN fi' = fi + 1 /\ UNCHANGED <<fg, pc, exc>>
       ELSE IF UnpackError(coords.items) # "none"
       THEN Escape(UnpackError(coords.items)) /\ UNCHANGED <<fg, fi>>
       ELSE \E raises \in PolyLineRaises(coords.items) :
               IF raises
               THEN Escape("ValueError") /\ UNCHANGED <<fg, fi>>
               ELSE /\ fg' = Append(fg, Drawn(f, aadt[1]))
                    /\ fi' = fi + 1
                    /\ UNCHANGED <<pc, exc>>

DrawFeature ==
    /\ pc = "draw"
    /\ fi <= Len(routes[gi].features)
    /\ IF variant = "html_generator_copy"
       THEN DrawPolyLine(routes[gi].features[fi])
       ELSE DrawGeoJson(routes[gi].features[fi])
    /\ UNCHANGED <<variant, file, data, parses, repairs, features, idx,
                   segments, stats, aadt_values, colormap, routes, gi, layers,
                   found, map, ret, driver>>

\* fg.add_to(m) at the end of a route's features, then the next route.
AddGroup ==
    /\ pc = "draw"
    /\ fi > Len(routes[gi].features)
    /\ layers' = Append(layers, [route_id |-> routes[gi].route_id, drawn |-> fg])
    /\ fg' = <<>>
    /\ gi' = gi + 1
    /\ fi' = 1
    /\ pc' = IF gi = Len(routes) THEN "save" ELSE "draw"
    /\ UNCHANGED <<variant, file, data, parses, repairs, features, idx,
                   segments, stats, aadt_values, colormap, routes, printed,
                   found, map, ret, exc, driver>>

\* m.save(output_file) and the return of the result.
Save ==
    /\ pc = "save"
    /\ map' = [map EXCEPT !.saved = TRUE]
    /\ Say("map_saved")
    /\ ret' = IF variant = "analysis" THEN "df_map" ELSE "map"
    /\ pc' = "driver"
    /\ UNCHANGED <<variant, file, data, parses, repairs, features, idx,
                   segments, stats, aadt_values, colormap, routes, gi, fi,
                   layers, fg, found, exc, driver>>

----------------------------------------------------------------------------
(* The __main__ drivers. *)

\* analysis: "df, map_obj = analyze_dc_traffic_data(...)" inside try/except
\* Exception: unpacking None raises TypeError in the driver itself; either
\* exception is caught and printed.  The generate_traffic_map drivers have
\* no try: an exception that left the function ends the process with a
\* traceback; a None result prints "Failed to generate map."
Driver ==
    /\ pc = "driver"
    /\ pc' = "done"
    /\ IF variant = "analysis"
       THEN IF exc # "none"
            THEN Say("analysis_error") /\ UNCHANGED driver
            ELSE IF ret = "None"
            THEN /\ Say("analysis_error")
                 /\ driver' = [driver EXCEPT !.raised = "TypeError"]
            ELSE Say("open_map") /\ UNCHANGED driver
       ELSE IF exc # "none"
            THEN /\ driver' = [driver EXCEPT !.crashed = TRUE]
                 /\ UNCHANGED printed
            ELSE IF ret = "None"
            THEN Say("failed_to_generate") /\ UNCHANGED driver
            ELSE Say("generation_successful") /\ UNCHANGED driver
    /\ UNCHANGED <<variant, file, data, parses, repairs, features, idx,
                   segments, stats, aadt_values, colormap, routes, gi, fi,
                   layers, fg, found, map, ret, exc>>

Next ==
    \/ Load
    \/ Repair
    \/ CheckFeatures
    \/ ExtractFeature
    \/ Stats
    \/ CreateMap
    \/ ScanFeature
    \/ Colormap
    \/ GroupFeature
    \/ DrawFeature
    \/ AddGroup
    \/ Save
    \/ Driver

Spec == Init /\ [][Next]_vars

----------------------------------------------------------------------------
(* Properties. *)

Printed(msg) == \E i \in 1..Len(printed) : printed[i] = msg

\* The number of positions of xs that satisfy P.
Count(xs, P(_)) == Cardinality({i \in 1..Len(xs) : P(xs[i])})

\* The run is over or past the loader.
Halted == pc \in {"driver", "done"}

\* Nothing of the pipeline past the loader has happened.
NothingProduced ==
    /\ features = <<>>
    /\ segments = <<>>
    /\ ~stats.computed
    /\ ~map.created
    /\ ~map.saved

\* The loader's bookkeeping common to the claim and its amendment: at most
\* two parses and one repair, a repair exactly when the first parse failed,
\* and a failed second parse halts the run with None and nothing produced.
OneRepair ==
    /\ parses <= 2
    /\ Len(repairs) <= 1
    /\ (Printed("json_error") /\ pc # "repair") => Len(repairs) = 1 /\ parses = 2
    /\ ~Printed("json_error") => repairs = <<>>
    /\ Printed("unable_to_fix")
         => Halted /\ ret = "None" /\ exc = "none" /\ NothingProduced

\* C1 as claimed: in every variant the one repair appends closing-bracket
\* characters to the raw text.
C1_AsClaimed ==
    /\ OneRepair
    /\ \A k \in 1..Len(repairs) :
          /\ repairs[k] # <<>>
          /\ \A j \in 1..Len(repairs[k]) : repairs[k][j] \in {"]", "}"}

\* C1 (amended): when the first parse fails there is exactly one second parse
\* and never a third; the generate_traffic_map copies parse the text with "]}"
\* appended, analysis parses it with "]}}" appended unless the text already
\* ends with "}", in which case it parses the unchanged text again; a failed
\* second parse halts the run with None before any segment, statistic or map.
C1_OneRepair ==
    /\ OneRepair
    /\ \A k \in 1..Len(repairs) :
          repairs[k] = IF variant # "analysis" THEN <<"]", "}">>
                       ELSE IF EndsWithBrace(file.text) THEN <<>>
                       ELSE <<"]", "}", "}">>

\* A run of analysis whose text ends with "}": the second parse, of the
\* unchanged text, failed and the run is over.
C1_Witness ==
    /\ pc = "done"
    /\ variant = "analysis"
    /\ repairs = <<<<>>>>
    /\ Printed("unable_to_fix")
    /\ ret = "None"

\* The parsed document is an object without a usable features member:
\* absent, null or an empty list.
EmptyDataset ==
    /\ Printed("loaded") \/ Printed("fixed")
    /\ data.t = "dict"
    /\ LET g == DictGet(data.members, "F") IN
       \/ ~g.has
       \/ g.v.t = "null"
       \/ g.v.t = "list" /\ g.v.items = <<>>

ExtractionOver ==
    /\ variant = "analysis"
    /\ features # <<>>
    /\ FirstFeatureCheck(features[1]) = "none"
    /\ pc # "extract"

\* C3: the extraction loop of analysis appends one segment per feature, in
\* input order, whatever the shape of the features.
C3_OneSegmentPerFeature ==
    ExtractionOver
        => /\ Len(segments) = Len(features)
           /\ \A i \in 1..Len(segments) :
                 segments[i].route_id = PropGet(features[i].f, "ROUTEID")

\* C4: every segment has a length that is a number >= 0, which is 0 when the
\* geometry has fewer than 2 coordinates and 0 when the distance of any
\* consecutive pair raises.
C4_LengthDefined ==
    \A i \in 1..Len(segments) :
        LET coords == CoordsOf(features[i].f)
            items == IF coords.k = "list" THEN coords.items ELSE <<>> IN
        /\ segments[i].length_km # NaN
        /\ segments[i].length_km >= 0
        /\ Len(items) < 2 => segments[i].length_km = 0
        /\ (\E j \in 1..(Len(items) - 1) : haversine(items[j], items[j + 1]).raise)
              => segments[i].length_km = 0

RECURSIVE SumOfCounts(_)
SumOfCounts(rows) ==
    IF rows = {} THEN 0
    ELSE LET row == CHOOSE x \in rows : TRUE IN
         row.segment_count + SumOfCounts(rows \ {row})

HasRoute(s) == s.route_id # None

HasAadt(s) == s.aadt # None

\* C5: the segment_count values of the per-route table sum to the number of
\* segments with a defined route_id.
C5_SegmentCounts ==
    stats.computed => SumOfCounts(stats.route_stats) = Count(segments, HasRoute)

\* C6: the counts of the bins (-inf,1000], (1000,5000], (5000,10000],
\* (10000,inf) are the numbers of segments whose defined aadt lies in each, and
\* sum to the number of segments with a defined aadt.
C6_BinsPartition ==
    stats.computed =>
        LET In1(s) == HasAadt(s) /\ s.aadt[1] <= 1000
            In2(s) == HasAadt(s) /\ 1000 < s.aadt[1] /\ s.aadt[1] <= 5000
            In3(s) == HasAadt(s) /\ 5000 < s.aadt[1] /\ s.aadt[1] <= 10000
            In4(s) == HasAadt(s) /\ 10000 < s.aadt[1]
            bins == stats.traffic_ranges
        IN  /\ bins = <<Count(segments, In1), Count(segments, In2),
                        Count(segments, In3), Count(segments, In4)>>
            /\ bins[1] + bins[2] + bins[3] + bins[4] = Count(segments, HasAadt)

\* The statistics were computed over segments with and without a volume,
\* one of them on a bin edge.
C6_Witness ==
    /\ stats.computed
    /\ \E i \in 1..Len(segments) : segments[i].aadt = None
    /\ \E i \in 1..Len(segments) : segments[i].aadt = Some(1000)
    /\ \E i \in 1..Len(segments) : segments[i].aadt = Some(10001)

\* The volumes of the features that carry one, by position.
FeatureAadt == {i \in 1..Len(features) : PropGet(features[i].f, "AADT") # None}

RECURSIVE SumAadt(_)
SumAadt(I) ==
    IF I = {} THEN 0
    ELSE LET i == CHOOSE x \in I : TRUE IN
         PropGet(features[i].f, "AADT")[1] + SumAadt(I \ {i})

\* C7: mean (sum / count), median, min and max are those of the volumes of
\* the features that carry one; a feature without a volume adds nothing to
\* them and is still one of the reported features and one row of segments.
C7_MissingAadtExcluded ==
    stats.computed =>
        LET A(i) == PropGet(features[i].f, "AADT")[1] IN
        /\ found = Len(features)
        /\ stats.total = Len(features)
        /\ Len(segments) = Len(features)
        /\ stats.count = Cardinality(FeatureAadt)
        /\ stats.sum = SumAadt(FeatureAadt)
        /\ FeatureAadt = {} => stats.min = None /\ stats.max = None /\ stats.median2 = None
        /\ FeatureAadt # {} =>
              /\ \E i \in FeatureAadt : stats.min = Some(A(i))
              /\ \A i \in FeatureAadt : stats.min[1] <= A(i)
              /\ \E i \in FeatureAadt : stats.max = Some(A(i))
              /\ \A i \in FeatureAadt : stats.max[1] >= A(i)
              /\ 2 * Cardinality({i \in FeatureAadt : 2 * A(i) < stats.median2[1]})
                    <= Cardinality(FeatureAadt)
              /\ 2 * Cardinality({i \in FeatureAadt : 2 * A(i) > stats.median2[1]})
                    <= Cardinality(FeatureAadt)
              /\ \E i, j \in FeatureAadt : stats.median2[1] = A(i) + A(j)

\* The statistics were computed over features with and without a volume.
C7_Witness ==
    /\ stats.computed
    /\ FeatureAadt # {}
    /\ \E i \in 1..Len(features) : PropGet(features[i].f, "AADT") = None
    /\ stats.count < stats.total

\* The grouping loop is over.
GroupingOver == pc \in {"draw", "save"} \/ map.saved

\* The places (group, position) of the feature of input position i.
Places(i) ==
    {<<k, j>> \in (1..Len(routes)) \X (1..MaxFeatures + 1) :
        /\ j <= Len(routes[k].features)
        /\ routes[k].features[j] = features[i].f}

\* The properties of the grouping that hold of whatever features are kept:
\* each is in one group, that of its own route; a group keeps the input order;
\* the groups stand, and are visited, in the order in which their routes
\* first occur.
StableGroups(Kept(_)) ==
    /\ \A i \in 1..Len(features) :
          IF Kept(PropGet(features[i].f, "ROUTEID"))
          THEN /\ Cardinality(Places(i)) = 1
               /\ \A p \in Places(i) :
                     Some(routes[p[1]].route_id) = PropGet(features[i].f, "ROUTEID")
          ELSE Places(i) = {}
    /\ \A k \in 1..Len(routes) :
          /\ routes[k].features # <<>>
          /\ \A j \in 1..(Len(routes[k].features) - 1) :
                routes[k].features[j].properties.OBJECTID
                    < routes[k].features[j + 1].properties.OBJECTID
    /\ \A k \in 1..(Len(routes) - 1) :
          routes[k].features[1].properties.OBJECTID
              < routes[k + 1].features[1].properties.OBJECTID
    /\ \A k \in 1..Len(layers) : layers[k].route_id = routes[k].route_id

Defined(route_id) == route_id # None

C9_RenderRecovers ==
    (pc = "done" /\ gi >= 1) => map.saved /\ exc = "none"

\* The run failed: the file is missing, the text did not parse even after the
\* repair, or the dataset is empty.
RunFailed ==
    \/ ~file.exists
    \/ Printed("unable_to_fix")
    \/ Printed("no_features")

\* C10: a failed run prints a message and returns None: no exception leaves
\* the entry function and the driver raises none of its own.
C10_FailuresReturnNone ==
    (pc = "done" /\ RunFailed)
        => /\ ret = "None"
           /\ exc = "none"
           /\ driver.raised = "none"
           /\ ~driver.crashed

\* A coordinate that is not a list of at least 2 elements.
Malformed(c) == ~(c.k = "list" /\ Len(c.v) >= 2)

\* Whether a malformed coordinate carries a longitude: a bare number, or a
\* list of one element.
HasLongitude(c) == c.k = "num" \/ (c.k = "list" /\ Len(c.v) = 1)

\* The point (longitude, 0.0) that stands for a malformed coordinate.
AsLonZero(c) == IF Malformed(c) THEN Coord("list", <<c.v[1], 0>>) ELSE c

\* The sum of the pair distances of an ordered list of points.
RECURSIVE PathLength(_)
PathLength(items) ==
    IF Len(items) < 2 THEN 0
    ELSE FAdd(haversine(items[1], items[2]).d, PathLength(Tail(items)))

\* The features extracted so far whose coordinates are a list of 2 or more
\* with a malformed one among them.
WithMalformed ==
    {i \in 1..Len(segments) :
        LET coords == CoordsOf(features[i].f) IN
        /\ coords.k = "list"
        /\ Len(coords.items) >= 2
        /\ \E j \in 1..Len(coords.items) : Malformed(coords.items[j])}

\* C11: in the length computation a malformed coordinate is taken as the point
\* (longitude, 0.0): no exception is raised, so the length does not fall back
\* to 0 with a diagnostic, and the length is the sum of the pair distances
\* computed from that point.
C11_MalformedAsLonZero ==
    (variant = "analysis" /\ WithMalformed # {})
        => /\ ~Printed("length_error")
           /\ \A i \in WithMalformed :
                 LET items == CoordsOf(features[i].f).items IN
                 (\A j \in 1..Len(items) : Malformed(items[j]) => HasLongitude(items[j]))
                     => segments[i].length_km
                            = PathLength([j \in 1..Len(items) |-> AsLonZero(items[j])])

\* The malformed coordinates of a list are all bare numbers.
OnlyNumbers(items) == \A j \in 1..Len(items) : Malformed(items[j]) => items[j].k = "num"

\* C11, as it holds: a bare number is taken as the point (number, 0.0), with
\* the length the well-formed coordinate [number, 0.0] gives; any other
\* malformed coordinate raises in the subtraction, and the except branch
\* prints the diagnostic and leaves 0 in length_km.
C11_NumberAsLonZero ==
    variant = "analysis"
        => \A i \in WithMalformed :
              LET items == CoordsOf(features[i].f).items
                  asLists == Coords("list", [j \in 1..Len(items) |-> AsLonZero(items[j])]) IN
              IF OnlyNumbers(items)
              THEN /\ segments[i].length_km = LengthKm(asLists).km
                   /\ Printed("length_error") <=> LengthKm(asLists).failed
              ELSE /\ segments[i].length_km = 0
                   /\ Printed("length_error")

\* A bare number among the coordinates of a feature gave a length other
\* than 0.
C11_Witness ==
    /\ variant = "analysis"
    /\ pc = "done"
    /\ \E i \in WithMalformed :
          LET items == CoordsOf(features[i].f).items IN
          /\ \E j \in 1..Len(items) : items[j] = CNum
          /\ OnlyNumbers(items)
          /\ segments[i].length_km = 1

\* A LineString of two or more [lon, lat] pairs: a geometry every variant of
\* the renderer can draw.
Drawable(f) ==
    /\ WellFormed(f.geometry)
    /\ f.geometry.type = "LineString"
    /\ UnpackError(f.geometry.coordinates.items) = "none"

\* Feature i of the document is on the map: in the feature group of route r,
\* with the line width of its volume.
OnMap(i, r, aadt) ==
    \E l \in 1..Len(layers) :
        /\ layers[l].route_id = r
        /\ \E d \in 1..Len(layers[l].drawn) :
              /\ layers[l].drawn[d].object_id = i
              /\ layers[l].drawn[d].aadt = aadt
              /\ layers[l].drawn[d].weight = Weight(variant, aadt)

\* C12: on the saved map, every feature with a defined ROUTEID and a defined
\* AADT >= 0 (0 included), and a geometry that can be drawn, is in the feature
\* group of its route with the width of its volume.
C12_DefinedAreDrawn ==
    map.saved
        => \A i \in 1..Len(features) :
              LET f == features[i].f
                  route_id == PropGet(f, "ROUTEID")
                  aadt == PropGet(f, "AADT") IN
              (route_id # None /\ aadt # None /\ aadt[1] >= 0 /\ Drawable(f))
                  => OnMap(i, route_id[1], aadt[1])

\* The features drawn so far: those of the finished feature groups and those
\* of the group being filled.
AllDrawn ==
    {fg[d] : d \in 1..Len(fg)}
    \cup UNION {{layers[l].drawn[d] : d \in 1..Len(layers[l].drawn)} : l \in 1..Len(layers)}

\* C13: every drawn feature got its colour from a colour scale that exists,
\* never the 'blue' fallback, and its aadt lies between the minimum and the
\* maximum the scale was built from.
C13_DrawnWithinScale ==
    \A d \in AllDrawn :
        /\ colormap.defined
        /\ colormap.vmin # None
        /\ colormap.vmax # None
        /\ colormap.vmin[1] <= d.aadt
        /\ d.aadt <= colormap.vmax[1]
        /\ d.colour = "scale"

\* A map was saved with a feature drawn strictly inside the scale's domain.
C13_Witness ==
    /\ map.saved
    /\ \E d \in AllDrawn :
          /\ colormap.vmin[1] < d.aadt
          /\ d.aadt < colormap.vmax[1]

====
